---- MODULE Spec2Model ----
(***************************************************************************)
(* Durable run-execution engine of django-agent-runtime: one run in the    *)
(* Run Store, its append-only event log, the queue operations, the runner  *)
(* tasks (run_once and its heartbeat task) of two workers, the reaper, the *)
(* cancel endpoint and the polling event stream.                           *)
(*                                                                         *)
(* Time is counted in whole ticks of one lease TTL.                        *)
(***************************************************************************)
EXTENDS Integers, Sequences, FiniteSets, TLC

\* ------------------------------------------------------------- bounds
MaxAttempts == 2      \* largest max_attempts a submission may ask for
MaxEvents == 3        \* optional emits (callback, heartbeat) stop at this log length
MaxTime == 2          \* the clock stops here
MaxFromSeq == 1       \* largest from_seq a stream is opened with
MaxRequests == 3      \* submit requests in flight
MaxBaseHalves == 6    \* RETRY_BACKOFF_BASE up to 3.0, counted in halves
MaxBackoffMax == 9    \* RETRY_BACKOFF_MAX up to 9 seconds
MaxFailures == 4      \* attempts of the run whose failures are backed off
MaxContexts == 2      \* attempts of the run that checkpoint and read state
MaxCheckpoints == 3   \* AgentCheckpoint rows of the run
MaxCheckTime == 8     \* the half-second clock of the cancellation check stops here

\* ---------------------------------------------------------- constants
LeaseTtl == 1         \* LEASE_TTL_SECONDS, the unit of time
BackoffTicks == 1     \* retry delay, rounded up to whole ticks
CancelCheckInterval == 2   \* _cancel_check_interval = 1.0 s, in half seconds
HeartbeatInterval == 4     \* HEARTBEAT_INTERVAL_SECONDS in half seconds, scaled down

Workers == {"w1", "w2"}
Tasks == 1..MaxAttempts
Registry == {"echo"}
AgentKeys == {"echo", "unknown"}
NoOwner == ""
NoLease == -1

QUEUED == "queued"
RUNNING == "running"
SUCCEEDED == "succeeded"
FAILED == "failed"
CANCELLED == "cancelled"
TIMED_OUT == "timed_out"

RUN_STARTED == "run.started"
RUN_HEARTBEAT == "run.heartbeat"
ASSISTANT_MESSAGE == "assistant.message"
TOKEN_DELTA == "token.delta"
RUN_SUCCEEDED == "run.succeeded"
RUN_FAILED == "run.failed"
RUN_CANCELLED == "run.cancelled"
RUN_TIMED_OUT == "run.timed_out"
STATE_CHECKPOINT == "state.checkpoint"

TerminalEventTypes == {RUN_SUCCEEDED, RUN_FAILED, RUN_CANCELLED, RUN_TIMED_OUT}

VARIABLES
    run,      \* the AgentRun row
    now,      \* the clock
    events,   \* the AgentEvent rows of the run, in insertion order
    task,     \* the runner tasks: run_once, its RunContextImpl and its heartbeat task
    api,      \* the cancel request in flight
    bus,      \* EVENT_BUS_BACKEND: "db" or "redis"
    stream,   \* one SSE stream on the run
    sub,      \* the submit requests and the AgentRun rows they created
    retry,    \* the backoff settings, the attempt that failed last and its delay
    ckpt,     \* the AgentCheckpoint rows and the contexts of the run's attempts
    cc,       \* one context's cancellation check, on a clock of half seconds
    ro,       \* the control flow of one call of run_once
    acc       \* the users, conversations and runs the API serves

vars == <<run, now, events, task, api, bus, stream, sub, retry, ckpt, cc, ro, acc>>

\* ------------------------------------------------------------ the run
is_terminal(r) == r.status \in {SUCCEEDED, FAILED, CANCELLED, TIMED_OUT}

\* a create that starts the attempt count at zero
NewRunAttemptZero(key, maxAttempts) ==
    [agent_key |-> key, status |-> QUEUED, attempt |-> 0, max_attempts |-> maxAttempts,
     lease_owner |-> NoOwner, lease_expires_at |-> NoLease, not_before |-> 0,
     cancel_requested |-> FALSE, started |-> FALSE, finished |-> FALSE,
     output |-> "none", error |-> "none"]

NewRun(key, maxAttempts) ==
    [agent_key |-> key, status |-> QUEUED, attempt |-> 1, max_attempts |-> maxAttempts,
     lease_owner |-> NoOwner, lease_expires_at |-> NoLease, not_before |-> 0,
     cancel_requested |-> FALSE, started |-> FALSE, finished |-> FALSE,
     output |-> "none", error |-> "none"]

\* ---------------------------------------------------------- the queue
\* a claim query that forgets the status filter
ClaimableAnyStatus(r, n) ==
    /\ r.not_before <= n
    /\ ~r.cancel_requested

Claimable(r, n) ==
    /\ r.status = QUEUED
    /\ r.not_before <= n
    /\ ~r.cancel_requested

ClaimRun(r, w, n) ==
    [r EXCEPT !.status = RUNNING, !.lease_owner = w,
              !.lease_expires_at = n + LeaseTtl, !.started = TRUE]

\* a lease test that every worker passes
LeaseHeldByAnyone(r, w) == TRUE

LeaseHeld(r, w) == r.lease_owner = w

\* an extension that forgets to compare the owner
ExtendOkAnyOwner(r, w) == r.status = RUNNING

ExtendOk(r, w) == r.status = RUNNING /\ LeaseHeld(r, w)

ExtendLease(r, w, n) ==
    IF ExtendOk(r, w) THEN [r EXCEPT !.lease_expires_at = n + LeaseTtl] ELSE r

Release(r, w, outcome, payload) ==
    IF LeaseHeld(r, w)
    THEN [r EXCEPT !.status = outcome, !.finished = TRUE,
                   !.lease_owner = NoOwner, !.lease_expires_at = NoLease,
                   !.output = IF outcome = SUCCEEDED THEN payload ELSE @,
                   !.error = IF outcome = SUCCEEDED THEN @ ELSE payload]
    ELSE r

\* a requeue that forgets the attempt budget
RequeueOkAnyAttempt(r, w) == LeaseHeld(r, w)

RequeueOk(r, w) == r.attempt < r.max_attempts /\ LeaseHeld(r, w)

\* a requeue that leaves the run claimable at once
RequeueForRetryNoDelay(r, w, err, n) ==
    IF RequeueOk(r, w)
    THEN [r EXCEPT !.status = QUEUED, !.attempt = @ + 1,
                   !.lease_owner = NoOwner, !.lease_expires_at = NoLease,
                   !.error = err]
    ELSE r

RequeueForRetry(r, w, err, n) ==
    IF RequeueOk(r, w)
    THEN [r EXCEPT !.status = QUEUED, !.attempt = @ + 1,
                   !.lease_owner = NoOwner, !.lease_expires_at = NoLease,
                   !.error = err, !.not_before = n + BackoffTicks]
    ELSE r

\* a reaper that takes every RUNNING run for expired
ExpiredAnyLease(r, n) == r.status = RUNNING

Expired(r, n) == r.status = RUNNING /\ r.lease_expires_at < n

ReapRun(r) ==
    IF r.attempt < r.max_attempts
    THEN [r EXCEPT !.status = QUEUED, !.attempt = @ + 1,
                   !.lease_owner = NoOwner, !.lease_expires_at = NoLease]
    ELSE [r EXCEPT !.status = FAILED, !.finished = TRUE, !.error = "LeaseLost",
                   !.lease_owner = NoOwner, !.lease_expires_at = NoLease]

\* ------------------------------------------------------ the event bus
SeqTaken(log, s) == \E i \in 1..Len(log) : log[i].seq = s

Max(S) == CHOOSE x \in S : \A y \in S : y <= x

GetNextSeq(log) ==
    IF Len(log) = 0 THEN 0 ELSE Max({log[i].seq : i \in 1..Len(log)}) + 1

PERSIST_TOKEN_DELTAS == FALSE

\* whether publish writes the event to the Event Store: a token delta goes to the
\* pub/sub channel only, unless persist_token_deltas is set
Persisted(b, type) == b = "db" \/ PERSIST_TOKEN_DELTAS \/ type # TOKEN_DELTA

NewEvent(s, type, t) == [seq |-> s, type |-> type, task |-> t]

\* ------------------------------------------------------------ a task
IdleTask ==
    [pc |-> "idle", hb |-> "off", worker |-> NoOwner, attempt |-> 0, seq |-> 0,
     is_cancelled |-> FALSE, main_inc |-> FALSE, hb_inc |-> FALSE]

\* an emit that advances the counter by two
IncSeqTwice(s) == s + 2

IncSeq(s) == s + 1

FreeSlot == CHOOSE t \in Tasks : task[t].pc = "idle" /\ \A u \in Tasks : u < t => task[u].pc # "idle"

NoStream == [pc |-> "off", current_seq |-> 0, from_seq |-> 0, delivered |-> <<>>]

\* ------------------------------------------------- the submit endpoint
Requests == 1..MaxRequests
IdempotencyKeys == {"abc", "xyz"}
NoKey == "null"
NoRow == 0

\* the first check of create that turns the request down, if any
Refusals == {"none", "validation", "authz", "quota", "conversation"}

NewRequest(k) ==
    [pc |-> "new", key |-> k, refusal |-> "none", response |-> "none", id |-> NoRow]

NoSubmits == [rows |-> <<>>, req |-> [q \in Requests |-> NewRequest(NoKey)]]

\* a lookup that never finds a run
ExistingNone(rows, k) == NoRow

\* AgentRun.objects.filter(idempotency_key=key).first(): the id of the row, or NoRow
Existing(rows, k) ==
    IF \E i \in 1..Len(rows) : rows[i].idempotency_key = k
    THEN rows[CHOOSE i \in 1..Len(rows) :
                 /\ rows[i].idempotency_key = k
                 /\ \A j \in 1..(i - 1) : rows[j].idempotency_key # k].id
    ELSE NoRow

\* the unique constraint on idempotency_key: NULL keys never collide
KeyTaken(rows, k) == k # NoKey /\ \E i \in 1..Len(rows) : rows[i].idempotency_key = k

RefusalResponse(f) ==
    CASE f = "validation" -> "HTTP_400_BAD_REQUEST"
      [] f = "authz" -> "HTTP_403_FORBIDDEN"
      [] f = "quota" -> "HTTP_429_TOO_MANY_REQUESTS"
      [] f = "conversation" -> "HTTP_404_NOT_FOUND"

\* create returns at the first check that fails: is_valid raises (400), the authz
\* hook (403), the quota hook (429), the conversation lookup (404)
SubmitRefuse(q) ==
    /\ sub.req[q].pc = "new"
    /\ sub.req[q].refusal # "none"
    /\ sub' = [sub EXCEPT !.req[q] =
                  [@ EXCEPT !.pc = "done",
                            !.response = RefusalResponse(sub.req[q].refusal)]]
    /\ UNCHANGED <<run, now, events, task, api, bus, stream, retry, ckpt, cc, ro, acc>>

\* create, up to the idempotency check: an existing run is returned with 200
SubmitCheck(q) ==
    /\ sub.req[q].pc = "new"
    /\ sub.req[q].refusal = "none"
    /\ LET k == sub.req[q].key
           found == IF k # NoKey THEN Existing(sub.rows, k) ELSE NoRow
       IN sub' = IF found # NoRow
                 THEN [sub EXCEPT !.req[q] = [@ EXCEPT !.pc = "done", !.id = found,
                                                       !.response = "HTTP_200_OK"]]
                 ELSE [sub EXCEPT !.req[q].pc = "create"]
    /\ UNCHANGED <<run, now, events, task, api, bus, stream, retry, ckpt, cc, ro, acc>>

\* AgentRun.objects.create(...): the insert raises IntegrityError on a taken key,
\* else the new run is returned with 201
SubmitCreate(q) ==
    /\ sub.req[q].pc = "create"
    /\ LET k == sub.req[q].key
           newId == Len(sub.rows) + 1
       IN sub' = IF KeyTaken(sub.rows, k)
                 THEN [sub EXCEPT !.req[q] = [@ EXCEPT !.pc = "done",
                                                       !.response = "IntegrityError"]]
                 ELSE [sub EXCEPT
                          !.rows = Append(@, [id |-> newId, idempotency_key |-> k,
                                              input |-> q] @@ NewRun("echo", 3)),
                          !.req[q] = [@ EXCEPT !.pc = "done", !.id = newId,
                                               !.response = "HTTP_201_CREATED"]]
    /\ UNCHANGED <<run, now, events, task, api, bus, stream, retry, ckpt, cc, ro, acc>>

\* ---------------------------------------------------- the checkpoints
Contexts == 1..MaxContexts
CheckpointStates == {"s1", "s2"}
NoState == "None"

\* a context not built yet: _state is None, no checkpoint(state) was called
NoContext ==
    [pc |-> "none", state |-> NoState, seq |-> 0, next_seq |-> 0,
     last_checkpoint |-> NoState, got |-> NoState]

NoCheckpoints == [rows |-> <<>>, ctx |-> [c \in Contexts |-> NoContext]]

\* AgentCheckpoint.objects.filter(run_id).order_by("-seq").first(): its state
LatestState(rows) ==
    IF Len(rows) = 0 THEN NoState
    ELSE rows[CHOOSE i \in 1..Len(rows) : \A j \in 1..Len(rows) : rows[j].seq <= rows[i].seq].state

\* next_seq = (last.seq + 1) if last else 0
NextCheckpointSeq(rows) ==
    IF Len(rows) = 0 THEN 0 ELSE Max({rows[i].seq : i \in 1..Len(rows)}) + 1

\* unique (run, seq) of AgentCheckpoint
CheckpointSeqTaken(rows, s) == \E i \in 1..Len(rows) : rows[i].seq = s

\* a claim of the run: _build_context (_seq = get_next_seq, _state = None) and
\* the emit of run.started. The context of the previous attempt exists; it may
\* have ended (retry) or still be running (its lease expired and was reaped)
BuildContext(c) ==
    /\ ckpt.ctx[c].pc = "none"
    /\ IF c = 1 THEN TRUE ELSE ckpt.ctx[c - 1].pc # "none"
    /\ events' = Append(events, NewEvent(GetNextSeq(events), RUN_STARTED, c))
    /\ ckpt' = [ckpt EXCEPT !.ctx[c] =
                   [NoContext EXCEPT !.pc = "ready", !.seq = IncSeq(GetNextSeq(events))]]
    /\ UNCHANGED <<run, now, task, api, bus, stream, sub, retry, cc, ro, acc>>

\* checkpoint(state), first half: self._state = state, and the query of _save
CheckpointCall(c, s) ==
    /\ ckpt.ctx[c].pc = "ready"
    /\ Len(ckpt.rows) < MaxCheckpoints
    /\ ckpt' = [ckpt EXCEPT !.ctx[c] =
                   [@ EXCEPT !.pc = "create", !.state = s, !.last_checkpoint = s,
                             !.next_seq = NextCheckpointSeq(ckpt.rows)]]
    /\ UNCHANGED <<run, now, events, task, api, bus, stream, sub, retry, cc, ro, acc>>

\* checkpoint(state), second half: the create of _save, then the emit of
\* state.checkpoint; a taken seq of either table raises into the callback
CheckpointCreate(c) ==
    /\ ckpt.ctx[c].pc = "create"
    /\ IF CheckpointSeqTaken(ckpt.rows, ckpt.ctx[c].next_seq)
       THEN /\ ckpt' = [ckpt EXCEPT !.ctx[c].pc = "ended"]
            /\ events' = events
       ELSE LET row == [seq |-> ckpt.ctx[c].next_seq, state |-> ckpt.ctx[c].state, ctx |-> c]
            IN IF SeqTaken(events, ckpt.ctx[c].seq)
               THEN /\ ckpt' = [ckpt EXCEPT !.rows = Append(@, row), !.ctx[c].pc = "ended"]
                    /\ events' = events
               ELSE /\ ckpt' = [ckpt EXCEPT !.rows = Append(@, row),
                                            !.ctx[c].pc = "ready",
                                            !.ctx[c].seq = IncSeq(@)]
                    /\ events' = Append(events, NewEvent(ckpt.ctx[c].seq, STATE_CHECKPOINT, c))
    /\ UNCHANGED <<run, now, task, api, bus, stream, sub, retry, cc, ro, acc>>

\* get_state(): self._state when it is not None, else the latest checkpoint of
\* the run, which is kept in self._state
GetState(c) ==
    /\ ckpt.ctx[c].pc = "ready"
    /\ LET loaded == IF ckpt.ctx[c].state # NoState THEN ckpt.ctx[c].state
                     ELSE LatestState(ckpt.rows)
       IN ckpt' = [ckpt EXCEPT !.ctx[c] = [@ EXCEPT !.pc = "got", !.state = loaded,
                                                    !.got = loaded]]
    /\ UNCHANGED <<run, now, events, task, api, bus, stream, sub, retry, cc, ro, acc>>

\* the callback goes on with the state it got
GetStateReturn(c) ==
    /\ ckpt.ctx[c].pc = "got"
    /\ ckpt' = [ckpt EXCEPT !.ctx[c].pc = "ready"]
    /\ UNCHANGED <<run, now, events, task, api, bus, stream, sub, retry, cc, ro, acc>>

\* the callback returns or raises: run_once is over for this context
EndContext(c) ==
    /\ ckpt.ctx[c].pc = "ready"
    /\ ckpt' = [ckpt EXCEPT !.ctx[c].pc = "ended"]
    /\ UNCHANGED <<run, now, events, task, api, bus, stream, sub, retry, cc, ro, acc>>

\* ------------------------------------------- the cancellation check
\* no context is checking
NoCancelCheck ==
    [time |-> 0, cancel_requested |-> FALSE, is_cancelled |-> FALSE,
     last_cancel_check |-> 0, hb_due |-> 0, reads |-> <<>>, seen |-> FALSE]

\* check_cancelled(): within _cancel_check_interval of the last check the cached
\* flag is returned; else queue.is_cancelled is read (cancel_requested_at is set)
\* and kept. reads is the list of the instants of these reads
check_cancelled(c) ==
    IF c.time - c.last_cancel_check < CancelCheckInterval
    THEN c
    ELSE [c EXCEPT !.last_cancel_check = c.time,
                   !.is_cancelled = c.cancel_requested,
                   !.reads = Append(@, c.time)]

\* half a second passes; the heartbeat's sleep ends when it is due
CcTick ==
    /\ cc.time < MaxCheckTime
    /\ cc.time < cc.hb_due
    /\ cc' = [cc EXCEPT !.time = @ + 1]
    /\ UNCHANGED <<run, now, events, task, api, bus, stream, sub, retry, ckpt, ro, acc>>

\* POST /cancel writes cancel_requested_at
CcRequestCancel ==
    /\ ~cc.cancel_requested
    /\ cc' = [cc EXCEPT !.cancel_requested = TRUE]
    /\ UNCHANGED <<run, now, events, task, api, bus, stream, sub, retry, ckpt, ro, acc>>

\* the callback calls ctx.check_cancelled()
CcCallbackCheck ==
    /\ cc' = check_cancelled(cc)
    /\ UNCHANGED <<run, now, events, task, api, bus, stream, sub, retry, ckpt, ro, acc>>

\* the callback calls ctx.cancelled(): the flag, no read
CcCancelled ==
    /\ cc' = [cc EXCEPT !.seen = cc.is_cancelled]
    /\ UNCHANGED <<run, now, events, task, api, bus, stream, sub, retry, ckpt, ro, acc>>

\* one iteration of _heartbeat_loop with the lease held: the sleep ends, the
\* lease is extended, run.heartbeat is emitted, ctx.check_cancelled() is called
CcHeartbeat ==
    /\ cc.time = cc.hb_due
    /\ cc' = [check_cancelled(cc) EXCEPT !.hb_due = cc.time + HeartbeatInterval]
    /\ UNCHANGED <<run, now, events, task, api, bus, stream, sub, retry, ckpt, ro, acc>>

\* --------------------------------------- run_once, its control flow
\* run_once is not running. in_body: the position is inside the inner try body;
\* exc: an exception is in flight; deadline: RUN_TIMEOUT_SECONDS has expired;
\* emitted, status: the terminal event published and the status written
NoRunOnce ==
    [pc |-> "none", in_body |-> FALSE, exc |-> FALSE, hb |-> "off", deadline |-> FALSE,
     emitted |-> "none", status |-> "none"]

\* what asyncio.wait_for(runtime.run(ctx), timeout) does: the callback returns
\* (ctx.cancelled() false or true), the deadline expires, the callback raises a
\* TimeoutError of its own, raises another Exception, or the task is cancelled
CallbackOutcomes ==
    {"return", "return_cancelled", "deadline", "raise_timeout", "raise_error", "task_cancelled"}

\* where an exception raised at this position goes: inside the try body the
\* except Exception clause (_handle_error), inside an except clause the finally
\* clause and then the outer except clause
RoRaise(r) ==
    IF r.in_body
    THEN [r EXCEPT !.pc = "on_error", !.in_body = FALSE]
    ELSE [r EXCEPT !.pc = "finally", !.exc = TRUE]

\* get_runtime, _build_context, emit(RUN_STARTED), create_task(_heartbeat_loop):
\* a failure of any of them reaches the outer except clause
RoStart ==
    /\ ro.pc = "start"
    /\ \E fails \in BOOLEAN :
          ro' = IF fails THEN [ro EXCEPT !.pc = "outer_except"]
                ELSE [ro EXCEPT !.pc = "callback", !.hb = "running", !.in_body = TRUE]
    /\ UNCHANGED <<run, now, events, task, api, bus, stream, sub, retry, ckpt, cc, acc>>

\* the heartbeat task ends: the lease was refused (break), or a queue operation
\* or the emit raised
RoHeartbeatEnds ==
    /\ ro.hb = "running"
    /\ \E h \in {"lost", "crashed"} : ro' = [ro EXCEPT !.hb = h]
    /\ UNCHANGED <<run, now, events, task, api, bus, stream, sub, retry, ckpt, cc, acc>>

\* await asyncio.wait_for(runtime.run(ctx), timeout) ends
RoCallback ==
    /\ ro.pc = "callback"
    /\ \E o \in CallbackOutcomes :
          ro' = CASE o = "return" -> [ro EXCEPT !.pc = "success_emit"]
                  [] o = "return_cancelled" -> [ro EXCEPT !.pc = "cancel_emit"]
                  [] o = "deadline" ->
                        [ro EXCEPT !.pc = "timeout_emit", !.deadline = TRUE, !.in_body = FALSE]
                  [] o = "raise_timeout" -> [ro EXCEPT !.pc = "timeout_emit", !.in_body = FALSE]
                  [] o = "raise_error" -> [ro EXCEPT !.pc = "on_error", !.in_body = FALSE]
                  [] o = "task_cancelled" -> [ro EXCEPT !.pc = "cancel_emit", !.in_body = FALSE]
    /\ UNCHANGED <<run, now, events, task, api, bus, stream, sub, retry, ckpt, cc, acc>>

\* the ctx.emit of a handler: the publish succeeds or raises
RoEmit ==
    /\ ro.pc \in {"success_emit", "timeout_emit", "cancel_emit", "failed_emit"}
    /\ \E fails \in BOOLEAN :
          ro' = IF fails THEN RoRaise(ro)
                ELSE CASE ro.pc = "success_emit" ->
                             [ro EXCEPT !.pc = "success_release", !.emitted = RUN_SUCCEEDED]
                       [] ro.pc = "timeout_emit" ->
                             [ro EXCEPT !.pc = "timeout_release", !.emitted = RUN_TIMED_OUT]
                       [] ro.pc = "cancel_emit" ->
                             [ro EXCEPT !.pc = "cancel_update", !.emitted = RUN_CANCELLED]
                       [] ro.pc = "failed_emit" ->
                             [ro EXCEPT !.pc = "failed_release", !.emitted = RUN_FAILED]
    /\ UNCHANGED <<run, now, events, task, api, bus, stream, sub, retry, ckpt, cc, acc>>

\* the queue.release of a handler, or the update of _handle_cancellation: it
\* succeeds, which ends the handler, or raises
RoRelease ==
    /\ ro.pc \in {"success_release", "timeout_release", "cancel_update", "failed_release"}
    /\ \E fails \in BOOLEAN :
          ro' = IF fails THEN RoRaise(ro)
                ELSE [ro EXCEPT !.pc = "finally", !.in_body = FALSE,
                                !.status = CASE ro.pc = "success_release" -> SUCCEEDED
                                             [] ro.pc = "timeout_release" -> TIMED_OUT
                                             [] ro.pc = "cancel_update" -> CANCELLED
                                             [] ro.pc = "failed_release" -> FAILED]
    /\ UNCHANGED <<run, now, events, task, api, bus, stream, sub, retry, ckpt, cc, acc>>

\* _handle_error: runtime.on_error raises, or classifies the error
RoOnError ==
    /\ ro.pc = "on_error"
    /\ \E fails \in BOOLEAN, retriable \in BOOLEAN :
          ro' = IF fails THEN RoRaise(ro)
                ELSE [ro EXCEPT !.pc = IF retriable THEN "requeue" ELSE "failed_emit"]
    /\ UNCHANGED <<run, now, events, task, api, bus, stream, sub, retry, ckpt, cc, acc>>

\* _handle_error: queue.requeue_for_retry raises, requeues, or refuses
RoRequeue ==
    /\ ro.pc = "requeue"
    /\ \E fails \in BOOLEAN, requeued \in BOOLEAN :
          ro' = IF fails THEN RoRaise(ro)
                ELSE IF requeued THEN [ro EXCEPT !.pc = "finally", !.status = QUEUED]
                ELSE [ro EXCEPT !.pc = "failed_emit"]
    /\ UNCHANGED <<run, now, events, task, api, bus, stream, sub, retry, ckpt, cc, acc>>

\* finally: heartbeat_task.cancel(); await heartbeat_task raises what ended the
\* heartbeat task, CancelledError excepted. An exception in flight goes on to the
\* outer except clause, else run_once returns
RoFinally ==
    /\ ro.pc = "finally"
    /\ ro' = IF ro.exc \/ ro.hb = "crashed"
             THEN [ro EXCEPT !.pc = "outer_except", !.exc = FALSE, !.hb = "off"]
             ELSE [ro EXCEPT !.pc = "returned", !.hb = "off"]
    /\ UNCHANGED <<run, now, events, task, api, bus, stream, sub, retry, ckpt, cc, acc>>

\* the outer except clause: queue.release(success=False) succeeds, or raises
\* out of run_once
RoOuterExcept ==
    /\ ro.pc = "outer_except"
    /\ \E fails \in BOOLEAN :
          ro' = IF fails THEN [ro EXCEPT !.pc = "raised"]
                ELSE [ro EXCEPT !.pc = "returned", !.status = FAILED]
    /\ UNCHANGED <<run, now, events, task, api, bus, stream, sub, retry, ckpt, cc, acc>>

\* -------------------------------------------- access to runs (the API)
\* the authenticated users, and the conversations with the user of each
Users == {"alice", "bob"}

Conversations == {"conv_alice", "conv_bob"}

NoConversation == "none"

ConversationUser(c) == IF c = "conv_alice" THEN "alice" ELSE "bob"

MaxRuns == 2

\* the run ids a request may name: those of the rows, and ids of no row
RunIds == 1..MaxRuns

\* a response: who asked, for what, the run id in the URL (0 for a create), the
\* HTTP status, and the row the response serializes or streams (0 for none)
Response(u, op, id, code, row) ==
    [user |-> u, op |-> op, target |-> id, code |-> code, body |-> row]

NoResponse == Response("none", "none", 0, 0, 0)

\* the API has served nothing. Each row has the columns the views read; creator
\* records who sent the create request, which AgentRun.objects.create does not
\* store
NoAccess == [rows |-> <<>>, last |-> NoResponse]

\* get_queryset: the runs whose conversation belongs to the user
InQueryset(row, u) ==
    /\ row.conversation # NoConversation
    /\ ConversationUser(row.conversation) = u

\* get_object: a run id of the queryset, else 404
GetObject(id, u) ==
    IF id \in 1..Len(acc.rows) /\ InQueryset(acc.rows[id], u) THEN id ELSE 0

\* check_access of async_event_stream: the run of that id, unless it has a
\* conversation of another user
check_access(id, u) ==
    IF id \notin 1..Len(acc.rows) THEN 0
    ELSE IF /\ acc.rows[id].conversation # NoConversation
            /\ ConversationUser(acc.rows[id].conversation) # u
         THEN 0
         ELSE id

\* AgentRun.objects.filter(idempotency_key=key).first()
ExistingWithKey(k) ==
    LET S == {i \in 1..Len(acc.rows) : acc.rows[i].idempotency_key = k}
    IN  IF S = {} THEN 0 ELSE CHOOSE i \in S : \A j \in S : i <= j

\* POST /runs/: the conversation lookup, the idempotency lookup, the create
AccCreate(u, c, k) ==
    /\ acc' =
          IF c # NoConversation /\ ConversationUser(c) # u
          THEN [acc EXCEPT !.last = Response(u, "create", 0, 404, 0)]
          ELSE IF k # NoKey /\ ExistingWithKey(k) # 0
          THEN [acc EXCEPT !.last = Response(u, "create", 0, 200, ExistingWithKey(k))]
          ELSE [rows |-> Append(acc.rows,
                            [creator |-> u, conversation |-> c, idempotency_key |-> k,
                             cancel_requested |-> FALSE, is_terminal |-> FALSE]),
                last |-> Response(u, "create", 0, 201, Len(acc.rows) + 1)]
    /\ Len(acc'.rows) <= MaxRuns
    /\ UNCHANGED <<run, now, events, task, api, bus, stream, sub, retry, ckpt, cc, ro>>

\* a worker brings the run to a terminal status
AccRunEnds(id) ==
    /\ id \in 1..Len(acc.rows)
    /\ ~acc.rows[id].is_terminal
    /\ acc' = [acc EXCEPT !.rows[id].is_terminal = TRUE]
    /\ UNCHANGED <<run, now, events, task, api, bus, stream, sub, retry, ckpt, cc, ro>>

\* GET /runs/{id}/
AccRetrieve(u, id) ==
    /\ acc' = [acc EXCEPT !.last =
                  IF GetObject(id, u) = 0 THEN Response(u, "retrieve", id, 404, 0)
                  ELSE Response(u, "retrieve", id, 200, id)]
    /\ UNCHANGED <<run, now, events, task, api, bus, stream, sub, retry, ckpt, cc, ro>>

\* POST /runs/{id}/cancel/
AccCancel(u, id) ==
    /\ acc' =
          IF GetObject(id, u) = 0
          THEN [acc EXCEPT !.last = Response(u, "cancel", id, 404, 0)]
          ELSE IF acc.rows[id].is_terminal
          THEN [acc EXCEPT !.last = Response(u, "cancel", id, 400, 0)]
          ELSE [acc EXCEPT !.rows[id].cancel_requested = TRUE,
                           !.last = Response(u, "cancel", id, 200, 0)]
    /\ UNCHANGED <<run, now, events, task, api, bus, stream, sub, retry, ckpt, cc, ro>>

\* GET /runs/{id}/events/: the stream of the run's events
AccEvents(u, id) ==
    /\ acc' = [acc EXCEPT !.last =
                  IF GetObject(id, u) = 0 THEN Response(u, "events", id, 404, 0)
                  ELSE Response(u, "events", id, 200, id)]
    /\ UNCHANGED <<run, now, events, task, api, bus, stream, sub, retry, ckpt, cc, ro>>

\* async_event_stream: the stream of the run's events for ASGI deployments
AccAsyncStream(u, id) ==
    /\ acc' = [acc EXCEPT !.last =
                  IF check_access(id, u) = 0 THEN Response(u, "async_stream", id, 404, 0)
                  ELSE Response(u, "async_stream", id, 200, id)]
    /\ UNCHANGED <<run, now, events, task, api, bus, stream, sub, retry, ckpt, cc, ro>>

\* ------------------------------------------------------ retry backoff
\* the settings are not drawn yet and no attempt has failed
NoRetry == [base2 |-> 0, max_backoff |-> 0, attempt |-> 0, delay |-> 0]

Min2(a, b) == IF a <= b THEN a ELSE b

\* _calculate_backoff: attempt = 1; delay = min(base ** attempt, max_backoff);
\* return int(delay). RETRY_BACKOFF_BASE is a float, here base2 halves, so that
\* base ** attempt is base2^attempt / 2^attempt and int() rounds it down
calculate_backoff(base2, max_backoff) ==
    LET attempt == 1
    IN Min2((base2 ^ attempt) \div (2 ^ attempt), max_backoff)

Init ==
    /\ \E key \in AgentKeys, m \in 1..MaxAttempts : run = NewRun(key, m)
    /\ now = 0
    /\ events = <<>>
    /\ task = [t \in Tasks |-> IdleTask]
    /\ api = "idle"
    /\ bus = "db"
    /\ stream = NoStream
    /\ sub = NoSubmits
    /\ retry = NoRetry
    /\ ckpt = NoCheckpoints
    /\ cc = NoCancelCheck
    /\ ro = NoRunOnce
    /\ acc = NoAccess

Tick ==
    /\ now < MaxTime
    /\ now' = now + 1
    /\ UNCHANGED <<run, events, task, api, bus, stream, sub, retry, ckpt, cc, ro, acc>>

\* queue.claim by the worker loop of w, which dispatches run_once as a task
Claim(w) ==
    /\ Claimable(run, now)
    /\ \E t \in Tasks : task[t].pc = "idle"
    /\ run' = ClaimRun(run, w, now)
    /\ task' = [task EXCEPT ![FreeSlot] =
                   [IdleTask EXCEPT !.pc = "start", !.worker = w, !.attempt = run.attempt]]
    /\ UNCHANGED <<now, events, api, bus, stream, sub, retry, ckpt, cc, ro, acc>>

ReapExpired ==
    /\ Expired(run, now)
    /\ run' = ReapRun(run)
    /\ UNCHANGED <<now, events, task, api, bus, stream, sub, retry, ckpt, cc, ro, acc>>

\* ---------------------------------------------------------- run_once
MainAt(t, p) == task[t].pc = p /\ ~task[t].main_inc

\* get_runtime(agent_key), then _build_context: _seq = event_bus.get_next_seq
StartRun(t) ==
    /\ MainAt(t, "start")
    /\ task' = IF run.agent_key \in Registry
               THEN [task EXCEPT ![t].pc = "built", ![t].seq = GetNextSeq(events)]
               ELSE [task EXCEPT ![t].pc = "outer_release"]
    /\ UNCHANGED <<run, now, events, api, bus, stream, sub, retry, ckpt, cc, ro, acc>>

\* ctx.emit on the main coroutine of t: the insert of (run, _seq, type); a taken seq
\* raises and the task goes to failPc, else _seq is incremented when emit resumes
MainEmit(t, type, okPc, failPc) ==
    IF ~Persisted(bus, type)
    THEN /\ task' = [task EXCEPT ![t].pc = okPc, ![t].main_inc = TRUE]
         /\ events' = events
    ELSE IF SeqTaken(events, task[t].seq)
    THEN /\ task' = [task EXCEPT ![t].pc = failPc]
         /\ events' = events
    ELSE /\ task' = [task EXCEPT ![t].pc = okPc, ![t].main_inc = TRUE]
         /\ events' = Append(events, NewEvent(task[t].seq, type, t))

EmitStarted(t) ==
    /\ MainAt(t, "built")
    /\ MainEmit(t, RUN_STARTED, "started", "outer_release")
    /\ UNCHANGED <<run, now, api, bus, stream, sub, retry, ckpt, cc, ro, acc>>

\* emit returns (_seq += 1), the heartbeat task is created, runtime.run(ctx) starts
StartedInc(t) ==
    /\ task[t].pc = "started" /\ task[t].main_inc
    /\ task' = [task EXCEPT ![t].seq = IncSeq(@), ![t].main_inc = FALSE,
                            ![t].hb = "sleep", ![t].pc = "callback"]
    /\ UNCHANGED <<run, now, events, api, bus, stream, sub, retry, ckpt, cc, ro, acc>>

\* self._seq += 1 after the publish of any later emit of the main coroutine
MainInc(t) ==
    /\ task[t].main_inc /\ task[t].pc # "started"
    /\ task' = [task EXCEPT ![t].seq = IncSeq(@), ![t].main_inc = FALSE]
    /\ UNCHANGED <<run, now, events, api, bus, stream, sub, retry, ckpt, cc, ro, acc>>

\* the agent callback emits a progress event
CallbackEmit(t) ==
    /\ MainAt(t, "callback")
    /\ Len(events) < MaxEvents /\ task[t].seq < MaxEvents
    /\ MainEmit(t, ASSISTANT_MESSAGE, "callback", "error")
    /\ UNCHANGED <<run, now, api, bus, stream, sub, retry, ckpt, cc, ro, acc>>

\* the agent callback emits a token delta
CallbackDelta(t) ==
    /\ MainAt(t, "callback")
    /\ Len(events) < MaxEvents /\ task[t].seq < MaxEvents
    /\ MainEmit(t, TOKEN_DELTA, "callback", "error")
    /\ UNCHANGED <<run, now, api, bus, stream, sub, retry, ckpt, cc, ro, acc>>

\* the agent callback calls ctx.check_cancelled()
CallbackCheckCancelled(t) ==
    /\ MainAt(t, "callback")
    /\ task' = [task EXCEPT ![t].is_cancelled = run.cancel_requested]
    /\ UNCHANGED <<run, now, events, api, bus, stream, sub, retry, ckpt, cc, ro, acc>>

\* runtime.run returns: ctx.cancelled() decides between cancellation and success
CallbackReturn(t) ==
    /\ MainAt(t, "callback")
    /\ task' = [task EXCEPT ![t].pc = IF task[t].is_cancelled THEN "cancel_emit"
                                       ELSE "success_emit"]
    /\ UNCHANGED <<run, now, events, api, bus, stream, sub, retry, ckpt, cc, ro, acc>>

\* runtime.run raises
CallbackRaise(t) ==
    /\ MainAt(t, "callback")
    /\ task' = [task EXCEPT ![t].pc = "error"]
    /\ UNCHANGED <<run, now, events, api, bus, stream, sub, retry, ckpt, cc, ro, acc>>

\* asyncio.wait_for raises TimeoutError: the callback is cancelled at its await,
\* an emit whose insert is done never reaches its _seq += 1
CallbackTimeout(t) ==
    /\ task[t].pc = "callback"
    /\ task' = [task EXCEPT ![t].pc = "timeout_emit", ![t].main_inc = FALSE]
    /\ UNCHANGED <<run, now, events, api, bus, stream, sub, retry, ckpt, cc, ro, acc>>

\* the run_once task is cancelled from outside: except asyncio.CancelledError
TaskCancelled(t) ==
    /\ task[t].pc = "callback"
    /\ task' = [task EXCEPT ![t].pc = "xcancel_emit", ![t].main_inc = FALSE]
    /\ UNCHANGED <<run, now, events, api, bus, stream, sub, retry, ckpt, cc, ro, acc>>

\* _handle_success
SuccessEmit(t) ==
    /\ MainAt(t, "success_emit")
    /\ MainEmit(t, RUN_SUCCEEDED, "success_release", "error")
    /\ UNCHANGED <<run, now, api, bus, stream, sub, retry, ckpt, cc, ro, acc>>

SuccessRelease(t) ==
    /\ MainAt(t, "success_release")
    /\ run' = Release(run, task[t].worker, SUCCEEDED, "result")
    /\ task' = [task EXCEPT ![t].pc = "finally"]
    /\ UNCHANGED <<now, events, api, bus, stream, sub, retry, ckpt, cc, ro, acc>>

\* _handle_timeout
TimeoutEmit(t) ==
    /\ MainAt(t, "timeout_emit")
    /\ MainEmit(t, RUN_TIMED_OUT, "timeout_release", "finally_raise")
    /\ UNCHANGED <<run, now, api, bus, stream, sub, retry, ckpt, cc, ro, acc>>

TimeoutRelease(t) ==
    /\ MainAt(t, "timeout_release")
    /\ run' = Release(run, task[t].worker, TIMED_OUT, "TimeoutError")
    /\ task' = [task EXCEPT ![t].pc = "finally"]
    /\ UNCHANGED <<now, events, api, bus, stream, sub, retry, ckpt, cc, ro, acc>>

\* _handle_cancellation, called in the try body (after the callback returned)
CancelEmit(t) ==
    /\ MainAt(t, "cancel_emit")
    /\ MainEmit(t, RUN_CANCELLED, "cancel_update", "error")
    /\ UNCHANGED <<run, now, api, bus, stream, sub, retry, ckpt, cc, ro, acc>>

\* _handle_cancellation, called in the except asyncio.CancelledError clause
XCancelEmit(t) ==
    /\ MainAt(t, "xcancel_emit")
    /\ MainEmit(t, RUN_CANCELLED, "cancel_update", "finally_raise")
    /\ UNCHANGED <<run, now, api, bus, stream, sub, retry, ckpt, cc, ro, acc>>

\* an update that sets the status and forgets the lease and finished_at
CancelUpdateRunStatusOnly(r, w) == [r EXCEPT !.status = CANCELLED]

\* AgentRun.objects.filter(id=run_id).update(status=CANCELLED, ...)
CancelUpdateRun(r, w) ==
    [r EXCEPT !.status = CANCELLED, !.finished = TRUE,
              !.lease_owner = NoOwner, !.lease_expires_at = NoLease]

CancelUpdate(t) ==
    /\ MainAt(t, "cancel_update")
    /\ run' = CancelUpdateRun(run, task[t].worker)
    /\ task' = [task EXCEPT ![t].pc = "finally"]
    /\ UNCHANGED <<now, events, api, bus, stream, sub, retry, ckpt, cc, ro, acc>>

\* _handle_error once on_error (or the default) has classified the error:
\* a retriable error is offered to the queue, a requeue ends the handler
HandleErrorWith(t, retriable) ==
    /\ MainAt(t, "error")
    /\ run' = IF retriable
              THEN RequeueForRetry(run, task[t].worker, "CallbackError", now)
              ELSE run
    /\ task' = [task EXCEPT ![t].pc =
                   IF retriable /\ RequeueOk(run, task[t].worker)
                   THEN "finally" ELSE "failed_emit"]
    /\ UNCHANGED <<now, events, api, bus, stream, sub, retry, ckpt, cc, ro, acc>>

\* _handle_error: the classification is the callback's (on_error) or the default
HandleError(t) == \E retriable \in BOOLEAN : HandleErrorWith(t, retriable)

FailedEmit(t) ==
    /\ MainAt(t, "failed_emit")
    /\ MainEmit(t, RUN_FAILED, "failed_release", "finally_raise")
    /\ UNCHANGED <<run, now, api, bus, stream, sub, retry, ckpt, cc, ro, acc>>

FailedRelease(t) ==
    /\ MainAt(t, "failed_release")
    /\ run' = Release(run, task[t].worker, FAILED, "CallbackError")
    /\ task' = [task EXCEPT ![t].pc = "finally"]
    /\ UNCHANGED <<now, events, api, bus, stream, sub, retry, ckpt, cc, ro, acc>>

\* finally: heartbeat_task.cancel(); await heartbeat_task. An exception that a
\* handler raised in an except clause, or that ended the heartbeat task, goes on
\* to the outer except clause
Finally(t) ==
    /\ task[t].pc \in {"finally", "finally_raise"} /\ ~task[t].main_inc
    /\ task' = IF task[t].pc = "finally_raise" \/ task[t].hb = "crashed"
               THEN [task EXCEPT ![t].pc = "outer_release", ![t].hb = "off",
                                 ![t].hb_inc = FALSE]
               ELSE [task EXCEPT ![t] = IdleTask]
    /\ UNCHANGED <<run, now, events, api, bus, stream, sub, retry, ckpt, cc, ro, acc>>

\* the outer except clause: queue.release(success=False)
OuterRelease(t) ==
    /\ MainAt(t, "outer_release")
    /\ run' = Release(run, task[t].worker, FAILED, "StartError")
    /\ task' = [task EXCEPT ![t] = IdleTask]
    /\ UNCHANGED <<now, events, api, bus, stream, sub, retry, ckpt, cc, ro, acc>>

\* ---------------------------------------------------- _heartbeat_loop
HbAt(t, h) == task[t].hb = h /\ ~task[t].hb_inc

\* the sleep ends: queue.extend_lease; a refusal ends the loop
HbExtend(t) ==
    /\ HbAt(t, "sleep")
    /\ Len(events) < MaxEvents
    /\ run' = ExtendLease(run, task[t].worker, now)
    /\ task' = [task EXCEPT ![t].hb = IF ExtendOk(run, task[t].worker)
                                       THEN "emit" ELSE "lost"]
    /\ UNCHANGED <<now, events, api, bus, stream, sub, retry, ckpt, cc, ro, acc>>

\* ctx.emit(RUN_HEARTBEAT): a taken seq raises and ends the heartbeat task
HbEmit(t) ==
    /\ HbAt(t, "emit")
    /\ IF SeqTaken(events, task[t].seq)
       THEN /\ task' = [task EXCEPT ![t].hb = "crashed"]
            /\ events' = events
       ELSE /\ task' = [task EXCEPT ![t].hb = "check", ![t].hb_inc = TRUE]
            /\ events' = Append(events, NewEvent(task[t].seq, RUN_HEARTBEAT, t))
    /\ UNCHANGED <<run, now, api, bus, stream, sub, retry, ckpt, cc, ro, acc>>

HbInc(t) ==
    /\ task[t].hb_inc
    /\ task' = [task EXCEPT ![t].seq = IncSeq(@), ![t].hb_inc = FALSE]
    /\ UNCHANGED <<run, now, events, api, bus, stream, sub, retry, ckpt, cc, ro, acc>>

\* ctx.check_cancelled() of the heartbeat
HbCheck(t) ==
    /\ HbAt(t, "check")
    /\ task' = [task EXCEPT ![t].hb = "sleep", ![t].is_cancelled = run.cancel_requested]
    /\ UNCHANGED <<run, now, events, api, bus, stream, sub, retry, ckpt, cc, ro, acc>>

\* ------------------------------------------------- the cancel endpoint
\* get_object and the is_terminal test: 400 on a terminal run
CancelRead ==
    /\ api = "idle"
    /\ api' = IF is_terminal(run) THEN "refused" ELSE "write"
    /\ UNCHANGED <<run, now, events, task, bus, stream, sub, retry, ckpt, cc, ro, acc>>

\* a cancel that also writes the status
CancelSaveWithStatus(r) == [r EXCEPT !.cancel_requested = TRUE, !.status = CANCELLED]

\* run.cancel_requested_at = now; run.save(update_fields=["cancel_requested_at"]):
\* only that column of the row is written
CancelSave(r) == [r EXCEPT !.cancel_requested = TRUE]

CancelWrite ==
    /\ api = "write"
    /\ run' = CancelSave(run)
    /\ api' = "acked"
    /\ UNCHANGED <<now, events, task, bus, stream, sub, retry, ckpt, cc, ro, acc>>

\* ------------------------------------------------------ _event_stream
RECURSIVE OrderBySeq(_)
OrderBySeq(S) ==
    IF S = {} THEN <<>>
    ELSE LET first == CHOOSE e \in S : \A f \in S : e.seq <= f.seq
         IN <<first>> \o OrderBySeq(S \ {first})

\* a query that forgets the seq__gte filter
EventsFromAll(log, k) == OrderBySeq({log[i] : i \in 1..Len(log)})

\* AgentEvent.objects.filter(run_id=run_id, seq__gte=current_seq).order_by("seq")
EventsFrom(log, k) == OrderBySeq({log[i] : i \in {j \in 1..Len(log) : log[j].seq >= k}})

\* the for loop over the rows: each is yielded, a terminal one ends the stream
Yielded(rows) ==
    IF \E i \in 1..Len(rows) : rows[i].type \in TerminalEventTypes
    THEN SubSeq(rows, 1, CHOOSE i \in 1..Len(rows) :
                            /\ rows[i].type \in TerminalEventTypes
                            /\ \A j \in 1..(i - 1) : rows[j].type \notin TerminalEventTypes)
    ELSE rows

StreamPoll ==
    /\ stream.pc = "poll"
    /\ LET out == Yielded(EventsFrom(events, stream.current_seq))
           ended == Len(out) > 0 /\ out[Len(out)].type \in TerminalEventTypes
       IN stream' = [stream EXCEPT
                        !.delivered = @ \o out,
                        !.current_seq = IF Len(out) > 0 THEN out[Len(out)].seq + 1 ELSE @,
                        !.pc = IF ended THEN "closed" ELSE "check"]
    /\ UNCHANGED <<run, now, events, task, api, bus, sub, retry, ckpt, cc, ro, acc>>

\* AgentRun.objects.get(id=run_id); run.is_terminal ends the stream, else the
\* keepalive is sent and the loop sleeps
StreamCheck ==
    /\ stream.pc = "check"
    /\ stream' = [stream EXCEPT !.pc = IF is_terminal(run) THEN "closed" ELSE "poll"]
    /\ UNCHANGED <<run, now, events, task, api, bus, sub, retry, ckpt, cc, ro, acc>>

RunnerStep(t) ==
    \/ StartRun(t)
    \/ EmitStarted(t)
    \/ StartedInc(t)
    \/ MainInc(t)
    \/ CallbackEmit(t)
    \/ CallbackReturn(t)
    \/ CallbackRaise(t)
    \/ CallbackTimeout(t)
    \/ TaskCancelled(t)
    \/ SuccessEmit(t)
    \/ SuccessRelease(t)
    \/ TimeoutEmit(t)
    \/ TimeoutRelease(t)
    \/ XCancelEmit(t)
    \/ CancelUpdate(t)
    \/ HandleError(t)
    \/ FailedEmit(t)
    \/ FailedRelease(t)
    \/ Finally(t)
    \/ OuterRelease(t)

\* the cooperative cancellation path of run_once
CooperativeCancelStep(t) ==
    \/ CallbackCheckCancelled(t)
    \/ CancelEmit(t)

HeartbeatStep(t) ==
    \/ HbExtend(t)
    \/ HbEmit(t)
    \/ HbInc(t)
    \/ HbCheck(t)

Next ==
    \/ Tick
    \/ \E w \in Workers : Claim(w)
    \/ ReapExpired
    \/ \E t \in Tasks : RunnerStep(t)
    \/ \E t \in Tasks : HeartbeatStep(t)
    \/ \E t \in Tasks : CooperativeCancelStep(t)
    \/ CancelRead
    \/ CancelWrite

Spec == Init /\ [][Next]_vars

\* the worker loop, the runner tasks, the heartbeat tasks, the reaper and the
\* request handler each go on taking their steps, and time passes
SpecFair ==
    /\ Spec
    /\ WF_vars(Tick)
    /\ WF_vars(\E w \in Workers : Claim(w))
    /\ WF_vars(ReapExpired)
    /\ WF_vars(\E t \in Tasks : RunnerStep(t) \/ CooperativeCancelStep(t))
    /\ WF_vars(\E t \in Tasks : HeartbeatStep(t))
    /\ WF_vars(CancelWrite)

\* a run of one attempt with a registered agent, and a stream opened on it
InitStream ==
    /\ run = NewRun("echo", 1)
    /\ now = 0
    /\ events = <<>>
    /\ task = [t \in Tasks |-> IdleTask]
    /\ api = "idle"
    /\ bus = "db"
    /\ \E k \in 0..MaxFromSeq :
          stream = [pc |-> "poll", current_seq |-> k, from_seq |-> k, delivered |-> <<>>]
    /\ sub = NoSubmits
    /\ retry = NoRetry
    /\ ckpt = NoCheckpoints
    /\ cc = NoCancelCheck
    /\ ro = NoRunOnce
    /\ acc = NoAccess

NextStream ==
    \/ Next
    \/ StreamPoll
    \/ StreamCheck

SpecStream == InitStream /\ [][NextStream]_vars

\* either event bus, and callbacks that emit token deltas; one worker,
\* no cancel request
InitBus ==
    /\ \E m \in 1..MaxAttempts : run = NewRun("echo", m)
    /\ now = 0
    /\ events = <<>>
    /\ task = [t \in Tasks |-> IdleTask]
    /\ api = "idle"
    /\ bus \in {"db", "redis"}
    /\ stream = NoStream
    /\ sub = NoSubmits
    /\ retry = NoRetry
    /\ ckpt = NoCheckpoints
    /\ cc = NoCancelCheck
    /\ ro = NoRunOnce
    /\ acc = NoAccess

NextBus ==
    \/ Tick
    \/ Claim("w1")
    \/ ReapExpired
    \/ \E t \in Tasks : RunnerStep(t)
    \/ \E t \in Tasks : HeartbeatStep(t)
    \/ \E t \in Tasks : CallbackDelta(t)

SpecBus == InitBus /\ [][NextBus]_vars

\* submit requests, each with an idempotency key or none, handled concurrently
InitSubmit ==
    /\ run = NewRun("echo", 1)
    /\ now = 0
    /\ events = <<>>
    /\ task = [t \in Tasks |-> IdleTask]
    /\ api = "idle"
    /\ bus = "db"
    /\ stream = NoStream
    /\ retry = NoRetry
    /\ ckpt = NoCheckpoints
    /\ cc = NoCancelCheck
    /\ ro = NoRunOnce
    /\ acc = NoAccess
    /\ \E keys \in [Requests -> IdempotencyKeys \cup {NoKey}] :
          sub = [rows |-> <<>>, req |-> [q \in Requests |-> NewRequest(keys[q])]]

NextSubmit ==
    \/ \E q \in Requests : SubmitCheck(q)
    \/ \E q \in Requests : SubmitCreate(q)

SpecSubmit == InitSubmit /\ [][NextSubmit]_vars

\* create with its refusals: every request is drawn with the check that turns
\* it down, or none
InitCreate ==
    /\ run = NewRun("echo", 1)
    /\ now = 0
    /\ events = <<>>
    /\ task = [t \in Tasks |-> IdleTask]
    /\ api = "idle"
    /\ bus = "db"
    /\ stream = NoStream
    /\ retry = NoRetry
    /\ ckpt = NoCheckpoints
    /\ cc = NoCancelCheck
    /\ ro = NoRunOnce
    /\ acc = NoAccess
    /\ \E keys \in [Requests -> IdempotencyKeys \cup {NoKey}],
          refused \in [Requests -> Refusals] :
          sub = [rows |-> <<>>,
                 req |-> [q \in Requests |->
                            [NewRequest(keys[q]) EXCEPT !.refusal = refused[q]]]]

NextCreate ==
    \/ \E q \in Requests : SubmitRefuse(q)
    \/ \E q \in Requests : SubmitCheck(q)
    \/ \E q \in Requests : SubmitCreate(q)

SpecCreate == InitCreate /\ [][NextCreate]_vars

\* ------------------------------------ _handle_error's backoff, alone
InitBackoff ==
    /\ run = NewRun("echo", 1)
    /\ now = 0
    /\ events = <<>>
    /\ task = [t \in Tasks |-> IdleTask]
    /\ api = "idle"
    /\ bus = "db"
    /\ stream = NoStream
    /\ sub = NoSubmits
    /\ \E b \in 2..MaxBaseHalves, m \in 1..MaxBackoffMax :
          retry = [base2 |-> b, max_backoff |-> m, attempt |-> 1, delay |-> 0]
    /\ ckpt = NoCheckpoints
    /\ cc = NoCancelCheck
    /\ ro = NoRunOnce
    /\ acc = NoAccess

\* the current attempt fails with a retriable error and attempts remain:
\* requeue_for_retry(delay_seconds=self._calculate_backoff(ctx)) increments attempt
RequeueWithBackoff ==
    /\ retry.attempt < MaxFailures
    /\ retry' = [retry EXCEPT !.delay = calculate_backoff(retry.base2, retry.max_backoff),
                              !.attempt = @ + 1]
    /\ UNCHANGED <<run, now, events, task, api, bus, stream, sub, ckpt, cc, ro, acc>>

NextBackoff == RequeueWithBackoff

SpecBackoff == InitBackoff /\ [][NextBackoff]_vars

\* ------------------------------------ checkpoint and get_state, alone
InitCheckpoint ==
    /\ run = NewRun("echo", MaxContexts)
    /\ now = 0
    /\ events = <<>>
    /\ task = [t \in Tasks |-> IdleTask]
    /\ api = "idle"
    /\ bus = "db"
    /\ stream = NoStream
    /\ sub = NoSubmits
    /\ retry = NoRetry
    /\ ckpt = NoCheckpoints
    /\ cc = NoCancelCheck
    /\ ro = NoRunOnce
    /\ acc = NoAccess

NextCheckpoint ==
    \/ \E c \in Contexts : BuildContext(c)
    \/ \E c \in Contexts, s \in CheckpointStates : CheckpointCall(c, s)
    \/ \E c \in Contexts : CheckpointCreate(c)
    \/ \E c \in Contexts : GetState(c)
    \/ \E c \in Contexts : GetStateReturn(c)
    \/ \E c \in Contexts : EndContext(c)

SpecCheckpoint == InitCheckpoint /\ [][NextCheckpoint]_vars

\* ------------------------------------ the cancellation check, alone
\* the context is built with _last_cancel_check = 0.0 on a loop clock that has
\* run for an interval at least; the heartbeat task starts with its sleep
InitCancelCheck ==
    /\ run = NewRun("echo", 1)
    /\ now = 0
    /\ events = <<>>
    /\ task = [t \in Tasks |-> IdleTask]
    /\ api = "idle"
    /\ bus = "db"
    /\ stream = NoStream
    /\ sub = NoSubmits
    /\ retry = NoRetry
    /\ ckpt = NoCheckpoints
    /\ ro = NoRunOnce
    /\ acc = NoAccess
    /\ cc = [NoCancelCheck EXCEPT !.time = CancelCheckInterval,
                                  !.hb_due = CancelCheckInterval + HeartbeatInterval]

NextCancelCheck ==
    \/ CcTick
    \/ CcRequestCancel
    \/ CcCallbackCheck
    \/ CcCancelled
    \/ CcHeartbeat

SpecCancelCheck == InitCancelCheck /\ [][NextCancelCheck]_vars

\* ------------------------------------------ run_once's control flow
InitRunOnce ==
    /\ run = NewRun("echo", 1)
    /\ now = 0
    /\ events = <<>>
    /\ task = [t \in Tasks |-> IdleTask]
    /\ api = "idle"
    /\ bus = "db"
    /\ stream = NoStream
    /\ sub = NoSubmits
    /\ retry = NoRetry
    /\ ckpt = NoCheckpoints
    /\ cc = NoCancelCheck
    /\ acc = NoAccess
    /\ ro = [NoRunOnce EXCEPT !.pc = "start"]

NextRunOnce ==
    \/ RoStart
    \/ RoHeartbeatEnds
    \/ RoCallback
    \/ RoEmit
    \/ RoRelease
    \/ RoOnError
    \/ RoRequeue
    \/ RoFinally
    \/ RoOuterExcept

SpecRunOnce == InitRunOnce /\ [][NextRunOnce]_vars

\* users of the API create runs, with or without a conversation and an
\* idempotency key, and retrieve, cancel and stream runs by id
InitAccess ==
    /\ run = NewRun("echo", 1)
    /\ now = 0
    /\ events = <<>>
    /\ task = [t \in Tasks |-> IdleTask]
    /\ api = "idle"
    /\ bus = "db"
    /\ stream = NoStream
    /\ sub = NoSubmits
    /\ retry = NoRetry
    /\ ckpt = NoCheckpoints
    /\ cc = NoCancelCheck
    /\ ro = NoRunOnce
    /\ acc = NoAccess

NextAccess ==
    \/ \E u \in Users, c \in Conversations \cup {NoConversation},
          k \in IdempotencyKeys \cup {NoKey} : AccCreate(u, c, k)
    \/ \E id \in RunIds : AccRunEnds(id)
    \/ \E u \in Users, id \in RunIds : AccRetrieve(u, id)
    \/ \E u \in Users, id \in RunIds : AccCancel(u, id)
    \/ \E u \in Users, id \in RunIds : AccEvents(u, id)
    \/ \E u \in Users, id \in RunIds : AccAsyncStream(u, id)

SpecAccess == InitAccess /\ [][NextAccess]_vars

\* ============================================================ claims
Active(t) == task[t].pc # "idle"

TerminalAt(log) == {i \in 1..Len(log) : log[i].type \in TerminalEventTypes}

\* C1: a claimable run is handed to at most one caller per QUEUED->RUNNING
\* transition: no two live runner tasks were handed the same attempt, and a
\* RUNNING run has exactly one lease_owner, a worker whose task was handed the
\* current attempt.
C1_ClaimExclusive ==
    /\ \A t, u \in Tasks :
          (Active(t) /\ Active(u) /\ task[t].attempt = task[u].attempt) => t = u
    /\ run.status = RUNNING =>
          /\ run.lease_owner \in Workers
          /\ Cardinality({t \in Tasks : Active(t) /\ task[t].attempt = run.attempt}) <= 1
          /\ \A t \in Tasks :
                (Active(t) /\ task[t].attempt = run.attempt) =>
                    task[t].worker = run.lease_owner

\* C1 witness: the run was claimed a second time while the task of the first
\* claim is still alive.
C1_Witness ==
    /\ run.status = RUNNING
    /\ \E t, u \in Tasks :
          /\ Active(t) /\ Active(u)
          /\ task[t].attempt = 1 /\ task[u].attempt = 2
          /\ task[u].worker = run.lease_owner

\* C2: at any instant at most one runner task is executing the agent callback
\* of the run.
C2_AtMostOneExecution ==
    Cardinality({t \in Tasks : task[t].pc = "callback"}) <= 1

\* C3: once extend_lease has returned false to the heartbeat of a task, that
\* task publishes no further event for the run.
C3_NoEventAfterLeaseLost ==
    [][\A t \in Tasks :
          task[t].hb = "lost" =>
              ~(Len(events') > Len(events) /\ events'[Len(events')].task = t)]_vars

\* C4: terminal statuses are absorbing: once the status is terminal, no step
\* changes the run's status, output or error.
C4_TerminalAbsorbing ==
    [][is_terminal(run) =>
          /\ run'.status = run.status
          /\ run'.output = run.output
          /\ run'.error = run.error]_vars

\* C5: the run's status and lease fields are changed only by claim, by the
\* reaper on an expired lease, or by a task whose worker is the run's current
\* lease_owner.
C5_OnlyLeaseHolderWrites ==
    [][(\/ run'.status # run.status
        \/ run'.lease_owner # run.lease_owner
        \/ run'.lease_expires_at # run.lease_expires_at) =>
          \/ run.status = QUEUED /\ run'.status = RUNNING
          \/ task' = task /\ Expired(run, now)
          \/ \E t \in Tasks :
                task'[t] # task[t] /\ Active(t) /\ task[t].worker = run.lease_owner]_vars

\* C6: the event log holds at most one terminal event.
C6_AtMostOneTerminalEvent == Cardinality(TerminalAt(events)) <= 1

\* C7: every run in a terminal status has a terminal event in its log.
C7_TerminalHasEvent == is_terminal(run) => TerminalAt(events) # {}

\* C8: no event is appended after a terminal event: a terminal event is the
\* last of the log.
C8_TerminalIsLast == \A i \in TerminalAt(events) : i = Len(events)

\* C9 (as claimed): the seq values of the persisted events are exactly 0..N-1,
\* without gap or duplicate, across all attempts.
C9_SeqContiguous == \A i \in 1..Len(events) : events[i].seq = i - 1

\* C9 (amended): no two persisted events share a seq, and the seq values are
\* exactly 0..N-1 when the bus persists every event (the DB bus).
C9_SeqContiguousWhenPersisted ==
    /\ \A i, j \in 1..Len(events) : events[i].seq = events[j].seq => i = j
    /\ bus = "db" => \A i \in 1..Len(events) : events[i].seq = i - 1

\* C9 witness: under the DB bus, a log that holds the events of two attempts,
\* the second started from get_next_seq, and a persisted token delta.
C9_Witness ==
    /\ bus = "db"
    /\ Len(events) >= 3
    /\ \E i, j \in 1..Len(events) :
          i < j /\ events[i].type = RUN_STARTED /\ events[j].type = RUN_STARTED
    /\ \E i \in 1..Len(events) : events[i].type = TOKEN_DELTA

\* the events a stream opened at from_seq has to deliver: those with
\* seq >= from_seq, up to and including the first terminal event
Owed(log, k) ==
    {i \in 1..Len(log) :
        /\ log[i].seq >= k
        /\ \A j \in TerminalAt(log) : log[j].seq >= log[i].seq}

\* C10: replay completeness: a stream does not close before it has delivered
\* every event of the run with seq >= from_seq, up to and including the terminal
\* event (stated for a log that holds a terminal event when the stream closes).
C10_ReplayComplete ==
    [][(stream.pc # "closed" /\ stream'.pc = "closed" /\ TerminalAt(events') # {}) =>
          \A i \in Owed(events', stream'.from_seq) :
              \E d \in 1..Len(stream'.delivered) : stream'.delivered[d] = events'[i]]_vars

\* C11: the events delivered on one stream have strictly increasing seq, none
\* has seq < from_seq, and none is delivered after a terminal event.
C11_StreamOrdered ==
    LET d == stream.delivered
    IN /\ \A i, j \in 1..Len(d) : i < j => d[i].seq < d[j].seq
       /\ \A i \in 1..Len(d) : d[i].seq >= stream.from_seq
       /\ \A i \in 1..Len(d) : d[i].type \in TerminalEventTypes => i = Len(d)

\* C11 witness: a closed stream that delivered at least two events, the last
\* of them the terminal event.
C11_Witness ==
    /\ stream.pc = "closed"
    /\ Len(stream.delivered) >= 2
    /\ stream.delivered[Len(stream.delivered)].type \in TerminalEventTypes
    /\ stream.current_seq = stream.delivered[Len(stream.delivered)].seq + 1

\* C12: attempt <= max_attempts in every reachable state (and attempt >= 1).
C12_AttemptWithinMax == 1 <= run.attempt /\ run.attempt <= run.max_attempts

\* C12 witness: a run that was requeued up to its last attempt and then failed
\* for good in the error handler, attempt staying at max_attempts.
C12_Witness ==
    /\ run.max_attempts = MaxAttempts
    /\ run.attempt = run.max_attempts
    /\ run.status = FAILED
    /\ run.error = "CallbackError"

RowsWithKey(rows, k) == {i \in 1..Len(rows) : rows[i].idempotency_key = k}

Completed(q) == sub.req[q].pc = "done"

\* C14: a submit that starts after an earlier submit with the same
\* idempotency_key has completed creates no run: it is answered 200 with the id
\* of the existing run, the rows are left unchanged, and exactly one row has
\* that key.
C14_RepeatedSubmitReturnsExisting ==
    [][\A q \in Requests :
          (/\ sub.req[q].pc = "new" /\ sub'.req[q].pc # "new"
           /\ sub.req[q].key # NoKey
           /\ \E p \in Requests : Completed(p) /\ sub.req[p].key = sub.req[q].key) =>
              /\ sub'.req[q].pc = "done"
              /\ sub'.req[q].response = "HTTP_200_OK"
              /\ sub'.rows = sub.rows
              /\ Cardinality(RowsWithKey(sub.rows, sub.req[q].key)) = 1
              /\ \A i \in RowsWithKey(sub.rows, sub.req[q].key) :
                    sub'.req[q].id = sub.rows[i].id]_vars

\* C14 witness: a submit answered 201 and a later submit with the same key
\* answered 200 with the same id.
C14_Witness ==
    \E p, q \in Requests :
        /\ p # q /\ Completed(p) /\ Completed(q)
        /\ sub.req[p].key # NoKey /\ sub.req[p].key = sub.req[q].key
        /\ sub.req[p].response = "HTTP_201_CREATED"
        /\ sub.req[q].response = "HTTP_200_OK"
        /\ sub.req[q].id = sub.req[p].id

\* C15: two submits with the same idempotency_key, in any interleaving, leave
\* exactly one row with the key and both are answered with that run's id.
C15_ConcurrentSubmitsShareRun ==
    \A p, q \in Requests :
        (/\ p # q /\ Completed(p) /\ Completed(q)
         /\ sub.req[p].key # NoKey /\ sub.req[p].key = sub.req[q].key) =>
            /\ Cardinality(RowsWithKey(sub.rows, sub.req[p].key)) = 1
            /\ sub.req[p].response \in {"HTTP_200_OK", "HTTP_201_CREATED"}
            /\ sub.req[q].response \in {"HTTP_200_OK", "HTTP_201_CREATED"}
            /\ sub.req[p].id = sub.req[q].id

\* C16: when the context of a task has observed the cancellation request
\* (ctx.cancelled() is true) and its worker holds the lease, the step of that
\* task that takes the run out of RUNNING makes it CANCELLED, with a
\* run.cancelled event in the log, however the callback exited.
C16_CancelledWhateverExit ==
    [][\A t \in Tasks :
          (/\ task[t].is_cancelled
           /\ run.status = RUNNING /\ run.lease_owner = task[t].worker
           /\ task'[t] # task[t]
           /\ run'.status # RUNNING) =>
              /\ run'.status = CANCELLED
              /\ \E i \in 1..Len(events') : events'[i].type = RUN_CANCELLED]_vars

\* C17: a run whose cancellation is requested while it is QUEUED is never
\* claimed, and eventually is CANCELLED with a run.cancelled event in its log.
C17_QueuedCancelShortCircuits ==
    /\ [][(run.status = QUEUED /\ run.cancel_requested) => run'.status # RUNNING]_vars
    /\ (run.status = QUEUED /\ run.cancel_requested) ~>
          (/\ run.status = CANCELLED
           /\ \E i \in 1..Len(events) : events[i].type = RUN_CANCELLED)

\* C18: a cancel request on a run in a terminal status is refused and leaves
\* cancel_requested_at as it was, also when the run became terminal between the
\* endpoint's read and its write.
C18_CancelOnTerminalRefused ==
    [][is_terminal(run) =>
          /\ run'.cancel_requested = run.cancel_requested
          /\ api' # api => api' = "refused"]_vars

\* C19: the write of the cancel endpoint sets cancel_requested_at and changes
\* nothing else of the run: status, attempt, lease_owner, lease_expires_at,
\* output and error keep the values the worker wrote last.
C19_CancelWritesOnlyRequest ==
    [][(api = "write" /\ api' = "acked") =>
          /\ run'.cancel_requested
          /\ run' = [run EXCEPT !.cancel_requested = TRUE]]_vars

\* C19 witness: a cancel request acknowledged on a RUNNING run whose lease the
\* heartbeat has extended, the lease still in place.
C19_Witness ==
    /\ api = "acked" /\ run.cancel_requested
    /\ run.status = RUNNING /\ run.lease_owner \in Workers
    /\ run.lease_expires_at = now + LeaseTtl
    /\ \E i \in 1..Len(events) : events[i].type = RUN_HEARTBEAT

\* the task of the current attempt, its worker holding the lease
HoldsLease(t) ==
    /\ run.status = RUNNING
    /\ run.lease_owner = task[t].worker
    /\ run.attempt = task[t].attempt

\* C20: when the callback did not finish within run_timeout and the worker
\* holds the lease, _handle_timeout emits run.timed_out and the run is released
\* as TIMED_OUT, attempt unchanged and the run not requeued.
C20_TimeoutEndsTimedOut ==
    [][\A t \in Tasks :
          /\ (HoldsLease(t) /\ task[t].pc = "timeout_emit" /\ task'[t].pc # "timeout_emit") =>
                /\ task'[t].pc = "timeout_release"
                /\ events' = Append(events, NewEvent(task[t].seq, RUN_TIMED_OUT, t))
          /\ (HoldsLease(t) /\ task[t].pc = "timeout_release" /\ task'[t].pc # "timeout_release") =>
                /\ run'.status = TIMED_OUT
                /\ run'.attempt = run.attempt]_vars

\* C21: a callback failure at attempt = max_attempts under a held lease is not
\* requeued: _handle_error leaves the run as it is, emits run.failed, and the
\* release makes the run FAILED with the callback's error, attempt unchanged.
C21_ExhaustedFailureFails ==
    [][\A t \in Tasks :
          /\ (/\ HoldsLease(t) /\ run.attempt = run.max_attempts
               /\ task[t].pc = "error" /\ task'[t].pc # "error") =>
                /\ run' = run
                /\ task'[t].pc = "failed_emit"
          /\ (HoldsLease(t) /\ task[t].pc = "failed_emit" /\ task'[t].pc # "failed_emit") =>
                /\ task'[t].pc = "failed_release"
                /\ events' = Append(events, NewEvent(task[t].seq, RUN_FAILED, t))
          /\ (HoldsLease(t) /\ task[t].pc = "failed_release" /\ task'[t].pc # "failed_release") =>
                /\ run'.status = FAILED
                /\ run'.error = "CallbackError"
                /\ run'.attempt = run.attempt]_vars

\* C22: a callback failure classified retriable at attempt < max_attempts under a
\* held lease puts the run back to QUEUED with attempt + 1 and the lease cleared,
\* emits nothing, leaves the run unclaimable at every instant before now + delay,
\* and the task emits no terminal event on its way out.
C22_RetriableRequeues ==
    [][\A t \in Tasks :
          /\ (/\ HoldsLease(t) /\ run.attempt < run.max_attempts
               /\ HandleErrorWith(t, TRUE)) =>
                /\ run'.status = QUEUED
                /\ run'.attempt = run.attempt + 1
                /\ run'.lease_owner = NoOwner /\ run'.lease_expires_at = NoLease
                /\ events' = events
                /\ \A n \in 0..(now + BackoffTicks - 1) : ~Claimable(run', n)
                /\ task'[t].pc = "finally"
          /\ (task[t].pc \in {"finally", "outer_release"} /\ Len(events') > Len(events)) =>
                \/ events'[Len(events')].task # t
                \/ events'[Len(events')].type \notin TerminalEventTypes]_vars

\* C22 witness: attempt 1 failed and was requeued, its task is on the way out
C22_Witness ==
    /\ run.status = QUEUED /\ run.attempt = 2 /\ run.error = "CallbackError"
    /\ run.not_before = now + BackoffTicks
    /\ \E t \in Tasks : task[t].pc = "finally" /\ task[t].attempt = 1

\* min(retry_backoff_base^a, retry_backoff_max) in whole seconds, the base in halves
BackoffOf(base2, max_backoff, a) == Min2((base2 ^ a) \div (2 ^ a), max_backoff)

\* C23: the delay handed to requeue_for_retry when attempt a fails is
\* min(retry_backoff_base^a, retry_backoff_max), a being the attempt that failed.
C23_BackoffKeyedToAttempt ==
    [][retry'.attempt = retry.attempt + 1 =>
          retry'.delay = BackoffOf(retry.base2, retry.max_backoff, retry.attempt)]_vars

\* C24: when the callback has returned with no cancellation observed and the
\* worker holds the lease, _handle_success appends run.succeeded, the release makes
\* the run SUCCEEDED with its output and the attempt unchanged, and run.succeeded
\* stays the last event of the run.
C24_NormalReturnSucceeds ==
    [][\A t \in Tasks :
          /\ (/\ HoldsLease(t) /\ ~task[t].is_cancelled
               /\ task[t].pc = "success_emit" /\ task'[t].pc # "success_emit") =>
                /\ task'[t].pc = "success_release"
                /\ events' = Append(events, NewEvent(task[t].seq, RUN_SUCCEEDED, t))
          /\ (HoldsLease(t) /\ task[t].pc = "success_release"
                            /\ task'[t].pc # "success_release") =>
                /\ run'.status = SUCCEEDED
                /\ run'.output = "result"
                /\ run'.attempt = run.attempt
          /\ (run.status = SUCCEEDED /\ Len(events) > 0 /\ Len(events') > Len(events)
                 /\ events[Len(events)].type = RUN_SUCCEEDED) =>
                FALSE]_vars

Refused == {RefusalResponse(f) : f \in Refusals \ {"none"}}

\* C25: a submit answered 201 has appended exactly one run, which is QUEUED at
\* attempt 1 with no lease and no cancellation request and whose id is the one
\* answered; a submit turned down by validation, authorization, quota or a
\* missing conversation is answered with that refusal and leaves the runs as
\* they were.
C25_CreateMakesOneQueuedRun ==
    [][\A q \in Requests :
          (sub.req[q].pc # "done" /\ sub'.req[q].pc = "done") =>
             /\ sub'.req[q].response = "HTTP_201_CREATED" =>
                   /\ Len(sub'.rows) = Len(sub.rows) + 1
                   /\ SubSeq(sub'.rows, 1, Len(sub.rows)) = sub.rows
                   /\ LET r == sub'.rows[Len(sub'.rows)]
                      IN /\ r.id = sub'.req[q].id
                         /\ r.status = QUEUED /\ r.attempt = 1
                         /\ r.lease_owner = NoOwner /\ r.lease_expires_at = NoLease
                         /\ ~r.cancel_requested
                         /\ r.idempotency_key = sub.req[q].key
             /\ sub.req[q].refusal # "none" =>
                   /\ sub'.req[q].response = RefusalResponse(sub.req[q].refusal)
                   /\ sub'.rows = sub.rows
             /\ sub'.req[q].response \in Refused => sub'.rows = sub.rows]_vars

\* C25 witness: one submit was answered 201 and created the only run, another
\* was turned down for a missing conversation
C25_Witness ==
    \E p, q \in Requests :
        /\ Completed(p) /\ sub.req[p].response = "HTTP_201_CREATED"
        /\ Completed(q) /\ sub.req[q].response = "HTTP_404_NOT_FOUND"
        /\ Len(sub.rows) = 1 /\ sub.rows[1].id = sub.req[p].id
        /\ sub.rows[1].status = QUEUED

\* C26: the heartbeat's extend_lease(r, w, ttl) returns true only when the run is
\* RUNNING with lease_owner = w, and then moves lease_expires_at to now + ttl and
\* nothing else; when it returns false the run is not RUNNING under w and is
\* left as it was.
C26_HeartbeatSound ==
    [][\A t \in Tasks :
          (task[t].hb = "sleep" /\ task'[t].hb \in {"emit", "lost"}) =>
             /\ task'[t].hb = "emit" =>
                   /\ run.status = RUNNING /\ run.lease_owner = task[t].worker
                   /\ run' = [run EXCEPT !.lease_expires_at = now + LeaseTtl]
             /\ task'[t].hb = "lost" =>
                   /\ ~(run.status = RUNNING /\ run.lease_owner = task[t].worker)
                   /\ run' = run]_vars

\* C26 witness: the heartbeat of the lease holder has extended the lease past the
\* one the claim gave, and the heartbeat of an earlier attempt was refused
C26_Witness ==
    \E t, u \in Tasks :
        /\ task[t].hb = "emit" /\ HoldsLease(t)
        /\ run.lease_expires_at = now + LeaseTtl /\ now > 0
        /\ task[u].hb = "lost" /\ task[u].worker # task[t].worker

\* the positions of run_once at which the next step is a queue.release or the
\* queue.requeue_for_retry of _handle_error
ReleasePcs == {"success_release", "timeout_release", "failed_release", "outer_release", "error"}

\* C27: a release or a requeue_for_retry by a worker that is not the run's
\* lease_owner changes nothing of the run: status, attempt, lease, output, error
\* and finished_at stay as they were.
C27_NonHolderReleaseIsNoOp ==
    [][\A t \in Tasks :
          (/\ task[t].pc \in ReleasePcs /\ task'[t].pc # task[t].pc
           /\ run.lease_owner # task[t].worker) =>
              run' = run]_vars

\* C27 witness: a task that emitted run.succeeded has passed its release while
\* another worker held the lease, and the run is still RUNNING without output
C27_Witness ==
    \E t \in Tasks :
        /\ task[t].pc = "finally"
        /\ \E i \in 1..Len(events) : events[i].type = RUN_SUCCEEDED /\ events[i].task = t
        /\ run.status = RUNNING /\ run.output = "none" /\ ~run.finished
        /\ run.lease_owner \notin {NoOwner, task[t].worker}

\* C28: a step that changes the run while no runner task and no request moves is
\* the reaper's. It acts only on a RUNNING run whose lease_expires_at < now, so a
\* run whose lease has not expired is left as it is; it leaves the run QUEUED
\* with attempt + 1 when attempt < max_attempts and FAILED with error LeaseLost
\* otherwise, and no longer RUNNING with a lease before now.
C28_ReaperSafe ==
    [][(run' # run /\ task' = task /\ api' = api /\ sub' = sub) =>
          /\ run.status = RUNNING /\ run.lease_expires_at < now
          /\ ~(run'.status = RUNNING /\ run'.lease_expires_at < now')
          /\ run.attempt < run.max_attempts =>
                run'.status = QUEUED /\ run'.attempt = run.attempt + 1
          /\ run.attempt >= run.max_attempts =>
                /\ run'.status = FAILED /\ run'.error = "LeaseLost"
                /\ run'.attempt = run.attempt]_vars

\* C28 witness: the lease of attempt 1 expired while its task was in the callback
\* and the reaper has put the run back to QUEUED at attempt 2
C28_Witness ==
    /\ run.status = QUEUED /\ run.attempt = 2 /\ run.error = "none"
    /\ run.lease_owner = NoOwner /\ run.lease_expires_at = NoLease
    /\ \E t \in Tasks : task[t].attempt = 1 /\ task[t].pc = "callback"

\* the clock of the model has reached its bound, no runner task is alive, and the
\* run waits for a later instant: the end of its retry delay or of its lease
WaitsForLaterInstant ==
    /\ now = MaxTime
    /\ \A t \in Tasks : task[t].pc = "idle"
    /\ \/ run.status = QUEUED /\ ~run.cancel_requested /\ run.not_before > now
       \/ run.status = RUNNING /\ run.lease_expires_at >= now

\* C29: with workers that keep claiming and reaping and fair scheduling of every
\* step, the run eventually reaches a terminal status (unless it is only waiting
\* for an instant beyond the model's clock), and a RUNNING run whose lease has
\* expired does not stay so.
C29_EventuallyTerminal ==
    /\ <>(is_terminal(run) \/ WaitsForLaterInstant)
    /\ Expired(run, now) ~> ~Expired(run, now)

\* the checkpoints saved by the contexts of the attempts before c
RowsBefore(rows, c) == SelectSeq(rows, LAMBDA r : r.ctx < c)

\* C30: get_state() on a context that has called checkpoint(s) returns s; on the
\* context of a re-claim that has not, it returns the state of the highest-seq
\* checkpoint saved by the earlier attempts, or none if there is no checkpoint.
C30_GetStateReturnsLatest ==
    [][\A c \in Contexts :
          (ckpt.ctx[c].pc = "ready" /\ ckpt'.ctx[c].pc = "got") =>
             IF ckpt.ctx[c].last_checkpoint # NoState
             THEN ckpt'.ctx[c].got = ckpt.ctx[c].last_checkpoint
             ELSE c > 1 => ckpt'.ctx[c].got = LatestState(RowsBefore(ckpt.rows, c))]_vars

\* C31: with the lease held, a heartbeat iteration that starts after the
\* cancellation was requested ends with ctx.cancelled() true; cancelled() reads
\* nothing; two reads of the Run Store by check_cancelled are a cancel-check
\* interval apart at least.
C31_CancelSeenByNextHeartbeat ==
    [][/\ (cc'.hb_due # cc.hb_due /\ cc.cancel_requested) => cc'.is_cancelled
       /\ cc'.seen # cc.seen => (cc'.reads = cc.reads /\ cc'.seen = cc.is_cancelled)
       /\ \A i \in 1..(Len(cc'.reads) - 1) :
             cc'.reads[i + 1] - cc'.reads[i] >= CancelCheckInterval]_vars

\* an event of the log that the context of task t published with seq s
PublishedBy(t, s) == \E i \in 1..Len(events) : events[i].seq = s /\ events[i].task = t

\* C32: when the callback and the heartbeat task emit on the same context, no
\* emit finds its seq already used by an event of that context, and every seq
\* below the context's counter is in the log.
C32_InterleavedEmitsDistinct ==
    [][\A t \in Tasks :
          /\ (CallbackEmit(t) \/ HbEmit(t)) => ~PublishedBy(t, task[t].seq)
          /\ task[t].pc \notin {"idle", "start"} =>
                \A s \in 0..(task[t].seq - 1) : SeqTaken(events, s)]_vars

\* C33: whatever the callback does and whichever publish or queue operation
\* fails, no exception leaves run_once.
C33_RunOnceNeverRaises == ro.pc # "raised"

\* the run was requeued and claimed again since the task t was handed its attempt
Superseded(t) ==
    /\ task[t].pc # "idle"
    /\ run.status = RUNNING /\ run.attempt > task[t].attempt

\* C34: once the run has been reaped and re-claimed, the extend_lease, release
\* and requeue_for_retry of the task of the earlier attempt change nothing of the
\* run, whichever worker_id made the re-claim.
C34_LeaseFencesAttempts ==
    [][\A t \in Tasks :
          (/\ Superseded(t)
           /\ \/ task[t].pc \in ReleasePcs /\ task'[t].pc # task[t].pc
              \/ task[t].hb = "sleep" /\ task'[t].hb \in {"emit", "lost"}) =>
              run' = run]_vars

\* the terminal event type that announces a terminal status
EventOfStatus(st) ==
    CASE st = SUCCEEDED -> RUN_SUCCEEDED
      [] st = FAILED -> RUN_FAILED
      [] st = CANCELLED -> RUN_CANCELLED
      [] st = TIMED_OUT -> RUN_TIMED_OUT

\* C35: when the run is terminal, every terminal event of its log is the one
\* that announces its status.
C35_TerminalEventMatchesStatus ==
    is_terminal(run) =>
        \A i \in TerminalAt(events) : events[i].type = EventOfStatus(run.status)

\* the run.started events of the log
StartedEvents == {i \in 1..Len(events) : events[i].type = RUN_STARTED}

\* C36: the number of run.started events in the run's log never exceeds
\* max_attempts, whether an attempt follows a requeue_for_retry or a requeue by
\* the reaper.
C36_StartsWithinAttemptBudget == Cardinality(StartedEvents) <= run.max_attempts

\* C36 witness: the budget is used up: a run of max_attempts 2 was started
\* twice, its second attempt following a requeue
C36_Witness ==
    /\ run.max_attempts = 2
    /\ run.attempt = 2
    /\ Cardinality(StartedEvents) = 2

\* C37: run.timed_out is emitted, and the timeout outcome recorded, only when
\* the deadline of wait_for expired: a timeout error raised by the callback
\* itself goes through on_error and the retry rule.
C37_TimedOutOnlyAtDeadline ==
    (ro.emitted = RUN_TIMED_OUT \/ ro.status = TIMED_OUT) => ro.deadline

\* C38: the run's status is CANCELLED only if a cancellation was requested for
\* it: CANCELLED implies that cancel_requested_at is set.
C38_CancelledOnlyOnRequest == run.status = CANCELLED => run.cancel_requested

\* the last response answers a request of the run's creator about that run
OwnRequest(ops) ==
    /\ acc.last.op \in ops
    /\ acc.last.target \in 1..Len(acc.rows)
    /\ acc.rows[acc.last.target].creator = acc.last.user

\* C39: a run created through submit, with a conversation or without, can be
\* retrieved, cancelled and streamed by the user who submitted it: no such
\* request of its creator is answered "not found".
C39_CreatorHasAccess ==
    OwnRequest({"retrieve", "cancel", "events", "async_stream"}) => acc.last.code # 404

\* C40: no response discloses a run or its events to a user other than the one
\* who created it: the run a response serializes or streams is a run of the
\* requesting user, for submit (an idempotency_key hit included), get and both
\* stream endpoints, and a cancellation is recorded only for the creator.
C40_NoDisclosureAcrossUsers ==
    /\ acc.last.body # 0 => acc.rows[acc.last.body].creator = acc.last.user
    /\ (acc.last.op = "cancel" /\ acc.last.code # 404) =>
           acc.rows[acc.last.target].creator = acc.last.user

====
